---- MODULE Spec2Model ----
(***************************************************************************)
(* Model of deploy.Deployment (src/deploy/deploy.go): New, Run and the     *)
(* helpers Run calls (waitForSSH/waitForPort, getPublicIp, saveConfig).    *)
(* Every external collaborator call of Run is one step whose outcome is    *)
(* chosen nondeterministically; a string handled character-wise by the     *)
(* code (the body read by getPublicIp) is a sequence of characters, so the *)
(* empty string is <<>>.                                                   *)
(***************************************************************************)
EXTENDS Naturals, Integers, Sequences, FiniteSets, TLC

\* ------------------------------------------------------------------ bounds
\* longest HTTP body the public-IP endpoint answers with
MaxBodyLen == 2
\* calls of New that are followed, and the clock readings they can see
MaxNewCalls == 2
MaxClock == 1

\* ------------------------------------------------- constants of the package
DropletBaseName == "dosxvpn"
FilenameAppleConfig == "%s.apple.mobileconfig"
FilenameAndroidConfig == "%s.android.sswan"
FilenamePrivateKey == "%s.client.cert.p12"
FilenameCACert == "%s.ca.cert.pem"
FilenameServerCert == "%s.server.cert.pem"

RemotePassword == "/etc/ipsec.d/client.cert.p12.password"
RemotePrivateKey == "/etc/ipsec.d/client.cert.p12"
RemoteCACert == "/etc/ipsec.d/cacerts/ca.cert.pem"
RemoteServerCert == "/etc/ipsec.d/certs/server.cert.pem"

\* ------------------------------------------------- inputs of the environment
Regions == {"nyc1"}
RandomTokens == {"123"}
DropletIDs == {7}
DropletIPs == {"10.0.0.1"}
\* the files of the dosxvpn container on the droplet
ContainerFiles ==
    (RemotePassword :> "passphrase") @@ (RemotePrivateKey :> "p12 bytes") @@
    (RemoteCACert :> "ca pem") @@ (RemoteServerCert :> "server pem")
BodyChars == {"7", "\n"}
Bodies == UNION {[1..n -> BodyChars] : n \in 0..MaxBodyLen}

EmptyString == <<>>

\* ------------------------------------------------------------------- state
VARIABLES
    pc,               \* position of Run
    result,           \* "running", "nil" (Run returned nil), "error" (Run
                      \* returned err), "fatal" (log.Fatal ended the process)
    failedStep,       \* the call whose error ended the run, "" if none
    Name, Region, AutoConfigure,
    created,          \* history: one record per call of New, in order
    Status, VPNIPAddress, InitialPublicIP, FinalPublicIP, VpnPassword,
    dropletIP, dropletID,
    initialPublicIP,  \* local of Run, line 92
    privateKeyString, caCertString, serverCertString,   \* locals of Run
    attempt,          \* loop variable of waitForPort
    j,                \* loop variable of the convergence loop
    newIP,            \* newIP of line 186, the last value the loop tested
    changed,          \* the loop left by break (line 190)
    dirExists,        \* FilepathDosxvpnConfigDir exists
    files,            \* the Config Directory: file name -> content
    calls,            \* history: the external calls made, in order
    dials,            \* history: net.Dial calls of waitForPort
    sleeps,           \* history: time.Sleep calls of waitForPort
    closes,           \* history: conn.Close calls of waitForPort
    writeErrors,      \* history: errors returned by saveConfig
    applyFailed,      \* history: vpn.OSXAddVPN returned an error
    lookupErr         \* history: the last getPublicIp returned an error

vars == <<pc, result, failedStep, Name, Region, AutoConfigure, created, Status,
          VPNIPAddress, InitialPublicIP, FinalPublicIP, VpnPassword,
          dropletIP, dropletID, initialPublicIP, privateKeyString,
          caCertString, serverCertString, attempt, j, newIP, changed,
          dirExists, files, calls, dials, sleeps, closes,
          writeErrors,
          applyFailed, lookupErr>>

deployment == <<Name, Region, AutoConfigure, created>>
fields == <<Status, VPNIPAddress, InitialPublicIP, FinalPublicIP, VpnPassword,
            dropletIP, dropletID>>
locals == <<initialPublicIP, privateKeyString, caCertString, serverCertString>>
portLoop == <<attempt, dials, sleeps, closes>>
ipLoop == <<j, newIP, changed, lookupErr>>
disk == <<dirExists, files, writeErrors>>

\* ----------------------------------------------------------------- helpers
IsSpace(c) == c \in {" ", "\t", "\n", "\r"}

RECURSIVE TrimLeft(_)
TrimLeft(s) ==
    IF s # <<>> /\ IsSpace(Head(s)) THEN TrimLeft(Tail(s)) ELSE s

RECURSIVE TrimRight(_)
TrimRight(s) ==
    IF s # <<>> /\ IsSpace(s[Len(s)])
    THEN TrimRight(SubSeq(s, 1, Len(s) - 1))
    ELSE s

\* bytes.TrimSpace
TrimSpace(s) == TrimRight(TrimLeft(s))

\* getPublicIp: the pair (string, error) for one outcome of http.Get and
\* ioutil.ReadAll; ok = FALSE is either of the two failing.
getPublicIp(ok, body) ==
    IF ok THEN [ip |-> TrimSpace(body), err |-> FALSE]
    ELSE [ip |-> EmptyString, err |-> TRUE]

PublicIpResults == {getPublicIp(ok, body) : ok \in BOOLEAN, body \in Bodies}

\* fmt.Sprintf(template, d.Name)
Sprintf(template, name) == <<template, name>>

Call(op, arg) == <<op, arg>>

Count(op) == Cardinality({i \in 1..Len(calls) : calls[i][1] = op})

\* ----------------------------------------------------------------- New
NewName(token, region) == <<DropletBaseName, "-", token, "-", region>>

StatusNew == "pending auth"

DigitChars == <<"0", "1", "2", "3", "4", "5", "6", "7", "8", "9">>

\* strconv.Itoa for n >= 0 (rand.Int is never negative)
RECURSIVE Itoa(_)
Itoa(n) ==
    IF n < 10 THEN <<DigitChars[n + 1]>>
    ELSE Append(Itoa(n \div 10), DigitChars[(n % 10) + 1])

\* values of rand.Int() right after rand.Seed
RandInts == {42, 1234, 1239, 5678}

\* strconv.Itoa(rand.Int())[:n] panics when the decimal string is shorter
\* than n
randomStringPanics(r, n) == Len(Itoa(r)) < n

\* randomString(n), line 222, for r = rand.Int()
randomString(r, n) == SubSeq(Itoa(r), 1, n)

\* rand.Seed(seed); rand.Int(): the generator is a function of its seed, so
\* a seed seen before gives the value it gave then
RandAfterSeed(seed) ==
    IF \E i \in 1..Len(created) : created[i].seed = seed
    THEN {created[i].rand : i \in {k \in 1..Len(created) : created[k].seed = seed}}
    ELSE RandInts

\* time.Now().UTC().UnixNano() does not go back between two calls
ClockReadings ==
    IF created = <<>> THEN 0..MaxClock
    ELSE created[Len(created)].seed..MaxClock

Init ==
    /\ pc = "getInitialIP"
    /\ result = "running"
    /\ failedStep = ""
    /\ Region \in Regions
    /\ \E token \in RandomTokens :
        /\ Name = NewName(token, Region)
        /\ created = <<[seed |-> 0, rand |-> 1234, outcome |-> "ok", name |-> Name]>>
    /\ AutoConfigure \in BOOLEAN
    /\ Status = StatusNew
    /\ VPNIPAddress = ""
    /\ InitialPublicIP = EmptyString
    /\ FinalPublicIP = EmptyString
    /\ VpnPassword = ""
    /\ dropletIP = ""
    /\ dropletID = 0
    /\ initialPublicIP = EmptyString
    /\ privateKeyString = ""
    /\ caCertString = ""
    /\ serverCertString = ""
    /\ attempt = 0
    /\ j = 0
    /\ newIP = EmptyString
    /\ changed = FALSE
    /\ dirExists \in BOOLEAN
    /\ files = <<>>
    /\ calls = <<>>
    /\ dials = 0
    /\ sleeps = 0
    /\ closes = 0
    /\ writeErrors = 0
    /\ applyFailed = FALSE
    /\ lookupErr = FALSE

\* log.Fatal(err): the process exits inside Run
Fatal(step) ==
    /\ pc' = "exited"
    /\ result' = "fatal"
    /\ failedStep' = step

\* lines 196-206: return nil
ReturnNil ==
    /\ pc' = "returned"
    /\ result' = "nil"
    /\ UNCHANGED failedStep

\* return err
ReturnErr(step) ==
    /\ pc' = "returned"
    /\ result' = "error"
    /\ failedStep' = step

Goto(l) ==
    /\ pc' = l
    /\ UNCHANGED <<result, failedStep>>

\* ----------------------------------------------------------------- Run
\* mutant: the error of the baseline lookup is returned to the caller
GetInitialIP_ErrorReturned ==
    /\ pc = "getInitialIP"
    /\ \E r \in PublicIpResults :
        /\ initialPublicIP' = r.ip
        /\ InitialPublicIP' = r.ip
        /\ lookupErr' = r.err
        /\ IF r.err THEN ReturnErr("getPublicIp") ELSE Goto("createDroplet")
    /\ calls' = Append(calls, Call("getPublicIp", "baseline"))
    /\ UNCHANGED <<deployment, applyFailed, Status, VPNIPAddress, FinalPublicIP,
                   VpnPassword, dropletIP, dropletID, privateKeyString,
                   caCertString, serverCertString, portLoop, j, newIP, changed,
                   disk>>

\* lines 91-94: the error of getPublicIp is dropped
GetInitialIP ==
    /\ pc = "getInitialIP"
    /\ \E r \in PublicIpResults :
        /\ initialPublicIP' = r.ip
        /\ InitialPublicIP' = r.ip
        /\ lookupErr' = r.err
    /\ calls' = Append(calls, Call("getPublicIp", "baseline"))
    /\ Goto("createDroplet")
    /\ UNCHANGED <<deployment, applyFailed, Status, VPNIPAddress, FinalPublicIP,
                   VpnPassword, dropletIP, dropletID, privateKeyString,
                   caCertString, serverCertString, portLoop, j, newIP, changed,
                   disk>>

CreateDroplet ==
    /\ pc = "createDroplet"
    /\ calls' = Append(calls, Call("CreateDroplet", Name))
    /\ \/ /\ \E id \in DropletIDs : dropletID' = id
          /\ Goto("waitForDropletIP")
       \/ /\ Fatal("CreateDroplet")
          /\ UNCHANGED dropletID
    /\ UNCHANGED <<deployment, applyFailed, Status, VPNIPAddress, InitialPublicIP,
                   FinalPublicIP, VpnPassword, dropletIP, locals, portLoop,
                   ipLoop, disk>>

\* mutant: the address is not copied to VPNIPAddress (line 111 missing)
WaitForDropletIP_NotRecorded ==
    /\ pc = "waitForDropletIP"
    /\ calls' = Append(calls, Call("WaitForDropletIP", dropletID))
    /\ \/ /\ \E ip \in DropletIPs : dropletIP' = ip
          /\ Goto("createFirewall")
       \/ /\ Fatal("WaitForDropletIP")
          /\ UNCHANGED dropletIP
    /\ UNCHANGED <<deployment, applyFailed, Status, InitialPublicIP, FinalPublicIP,
                   VPNIPAddress, VpnPassword, dropletID, locals, portLoop,
                   ipLoop, disk>>

WaitForDropletIP ==
    /\ pc = "waitForDropletIP"
    /\ calls' = Append(calls, Call("WaitForDropletIP", dropletID))
    /\ \/ /\ \E ip \in DropletIPs :
                /\ dropletIP' = ip
                /\ VPNIPAddress' = ip
          /\ Goto("createFirewall")
       \/ /\ Fatal("WaitForDropletIP")
          /\ UNCHANGED <<dropletIP, VPNIPAddress>>
    /\ UNCHANGED <<deployment, applyFailed, Status, InitialPublicIP, FinalPublicIP,
                   VpnPassword, dropletID, locals, portLoop, ipLoop, disk>>

\* mutant: the assignment of line 120 is missing
StatusWaitingForSSH_Unset == "pending auth"

StatusWaitingForSSH == "waiting for ssh"

\* mutant: the error of CreateFirewall is logged with log.Println, Run goes on
CreateFirewall_ErrorLogged ==
    /\ pc = "createFirewall"
    /\ calls' = Append(calls, Call("CreateFirewall", dropletID))
    /\ Status' = StatusWaitingForSSH
    /\ pc' = "waitForSSH"
    /\ UNCHANGED result
    /\ \E ok \in BOOLEAN :
          failedStep' = IF ok THEN failedStep ELSE "CreateFirewall"
    /\ UNCHANGED <<deployment, applyFailed, VPNIPAddress, InitialPublicIP, FinalPublicIP,
                   VpnPassword, dropletIP, dropletID, locals, portLoop,
                   ipLoop, disk>>

CreateFirewall ==
    /\ pc = "createFirewall"
    /\ calls' = Append(calls, Call("CreateFirewall", dropletID))
    /\ \/ /\ Status' = StatusWaitingForSSH
          /\ Goto("waitForSSH")
       \/ /\ Fatal("CreateFirewall")
          /\ UNCHANGED Status
    /\ UNCHANGED <<deployment, applyFailed, VPNIPAddress, InitialPublicIP, FinalPublicIP,
                   VpnPassword, dropletIP, dropletID, locals, portLoop,
                   ipLoop, disk>>

\* ------------------------------------------------------------ waitForPort
\* mutant: the loop bound off by one
PortLoopCond_OffByOne(a) == a <= 15

\* mutant: a larger attempt limit
PortLoopCond_Twenty(a) == a < 20

\* the loop condition of waitForPort, line 248
PortLoopCond(a) == a < 15

\* mutant: the return after conn.Close is missing, the loop goes on
DialOutcome_NoReturn(ok) ==
    IF ok
    THEN /\ closes' = closes + 1
         /\ attempt' = attempt + 1
         /\ UNCHANGED sleeps
         /\ Goto("waitForSSH")
    ELSE /\ sleeps' = sleeps + 1
         /\ attempt' = attempt + 1
         /\ UNCHANGED closes
         /\ Goto("waitForSSH")

\* one iteration of waitForPort for one outcome of net.Dial, lines 249-257
DialOutcome(ok) ==
    IF ok
    THEN /\ closes' = closes + 1
         /\ UNCHANGED <<attempt, sleeps>>
         /\ Goto("sshRun")
    ELSE /\ sleeps' = sleeps + 1
         /\ attempt' = attempt + 1
         /\ UNCHANGED closes
         /\ Goto("waitForSSH")

waitForPortDial ==
    /\ pc = "waitForSSH"
    /\ PortLoopCond(attempt)
    /\ calls' = Append(calls, Call("Dial", <<dropletIP, 22>>))
    /\ dials' = dials + 1
    /\ \E ok \in BOOLEAN : DialOutcome(ok)
    /\ UNCHANGED <<deployment, applyFailed, fields, locals, ipLoop, disk>>

\* line 259 returns the timeout error, which Run hands to log.Fatal (123-125)
waitForPortTimeout ==
    /\ pc = "waitForSSH"
    /\ ~PortLoopCond(attempt)
    /\ Fatal("waitForSSH")
    /\ UNCHANGED <<deployment, applyFailed, fields, locals, portLoop, ipLoop, disk, calls>>

SSHRunWait ==
    /\ pc = "sshRun"
    /\ calls' = Append(calls, Call("Run", dropletIP))
    /\ \/ Goto("getPassword")
       \/ Fatal("Run")
    /\ UNCHANGED <<deployment, applyFailed, fields, locals, portLoop, ipLoop, disk>>

\* ----------------------------------------------------------- saveConfig
\* mk: os.MkdirAll succeeds (its error is dropped, line 226);
\* wr: ioutil.WriteFile succeeds once the directory is there.
WriteSucceeds(mk, wr) == (dirExists \/ mk) /\ wr

\* the error saveConfig returns, lines 227-231; every caller in Run drops
\* both results of saveConfig (lines 146, 152, 158, 164, 170)
saveConfigErr(mk, wr) == ~WriteSucceeds(mk, wr)

saveConfig(configFileString, saveFile, mk, wr) ==
    /\ dirExists' = (dirExists \/ mk)
    /\ files' = IF WriteSucceeds(mk, wr)
                THEN (saveFile :> configFileString) @@ files
                ELSE files
    /\ writeErrors' = IF saveConfigErr(mk, wr) THEN writeErrors + 1
                      ELSE writeErrors

FetchCall(remoteFile) == Call("GetFileFromContainer", <<dropletIP, remoteFile>>)
WriteCall(saveFile) == Call("WriteFile", saveFile)

\* ------------------------------------------------------- artifact fetches
GetPassword ==
    /\ pc = "getPassword"
    /\ calls' = Append(calls, FetchCall(RemotePassword))
    /\ \/ /\ VpnPassword' = ContainerFiles[RemotePassword]
          /\ Goto("getPrivateKey")
       \/ /\ ReturnErr(RemotePassword)
          /\ UNCHANGED VpnPassword
    /\ UNCHANGED <<deployment, applyFailed, Status, VPNIPAddress, InitialPublicIP,
                   FinalPublicIP, dropletIP, dropletID, locals, portLoop,
                   ipLoop, disk>>

GetPrivateKey ==
    /\ pc = "getPrivateKey"
    /\ \/ \E mk \in BOOLEAN, wr \in BOOLEAN :
            /\ privateKeyString' = ContainerFiles[RemotePrivateKey]
            /\ saveConfig(privateKeyString', Sprintf(FilenamePrivateKey, Name), mk, wr)
            /\ calls' = calls \o <<FetchCall(RemotePrivateKey),
                                   WriteCall(Sprintf(FilenamePrivateKey, Name))>>
            /\ Goto("getCACert")
       \/ /\ calls' = Append(calls, FetchCall(RemotePrivateKey))
          /\ ReturnErr(RemotePrivateKey)
          /\ UNCHANGED <<privateKeyString, disk>>
    /\ UNCHANGED <<deployment, applyFailed, fields, initialPublicIP, caCertString,
                   serverCertString, portLoop, ipLoop>>

GetCACert ==
    /\ pc = "getCACert"
    /\ \/ \E mk \in BOOLEAN, wr \in BOOLEAN :
            /\ caCertString' = ContainerFiles[RemoteCACert]
            /\ saveConfig(caCertString', Sprintf(FilenameCACert, Name), mk, wr)
            /\ calls' = calls \o <<FetchCall(RemoteCACert),
                                   WriteCall(Sprintf(FilenameCACert, Name))>>
            /\ Goto("getServerCert")
       \/ /\ calls' = Append(calls, FetchCall(RemoteCACert))
          /\ ReturnErr(RemoteCACert)
          /\ UNCHANGED <<caCertString, disk>>
    /\ UNCHANGED <<deployment, applyFailed, fields, initialPublicIP, privateKeyString,
                   serverCertString, portLoop, ipLoop>>

GetServerCert ==
    /\ pc = "getServerCert"
    /\ \/ \E mk \in BOOLEAN, wr \in BOOLEAN :
            /\ serverCertString' = ContainerFiles[RemoteServerCert]
            /\ saveConfig(serverCertString', Sprintf(FilenameServerCert, Name), mk, wr)
            /\ calls' = calls \o <<FetchCall(RemoteServerCert),
                                   WriteCall(Sprintf(FilenameServerCert, Name))>>
            /\ Goto("genAppleConfig")
       \/ /\ calls' = Append(calls, FetchCall(RemoteServerCert))
          /\ ReturnErr(RemoteServerCert)
          /\ UNCHANGED <<serverCertString, disk>>
    /\ UNCHANGED <<deployment, applyFailed, fields, initialPublicIP, privateKeyString,
                   caCertString, portLoop, ipLoop>>

\* ------------------------------------------------------- client configs
\* genconfig.GenerateAppleConfig / GenerateAndroidConfig are collaborators:
\* the document is identified by the arguments Run passes.
AppleConfig == <<"apple", dropletIP, Name, VpnPassword, privateKeyString,
                 caCertString, serverCertString>>
AndroidConfig == <<"android", dropletIP, Name, privateKeyString, caCertString>>

\* mutant: the optional tail is entered whatever AutoConfigure is
EntersTail_Always(autoConfigure) == TRUE

\* the test of line 174
EntersTail(autoConfigure) == autoConfigure

GenAppleConfig ==
    /\ pc = "genAppleConfig"
    /\ \/ \E mk \in BOOLEAN, wr \in BOOLEAN :
            /\ saveConfig(AppleConfig, Sprintf(FilenameAppleConfig, Name), mk, wr)
            /\ calls' = calls \o <<Call("GenerateAppleConfig", dropletIP),
                                   WriteCall(Sprintf(FilenameAppleConfig, Name))>>
            /\ Goto("genAndroidConfig")
       \/ /\ calls' = Append(calls, Call("GenerateAppleConfig", dropletIP))
          /\ ReturnErr("GenerateAppleConfig")
          /\ UNCHANGED disk
    /\ UNCHANGED <<deployment, applyFailed, fields, locals, portLoop, ipLoop>>

GenAndroidConfig ==
    /\ pc = "genAndroidConfig"
    /\ \/ \E mk \in BOOLEAN, wr \in BOOLEAN :
            /\ saveConfig(AndroidConfig, Sprintf(FilenameAndroidConfig, Name), mk, wr)
            /\ calls' = calls \o <<Call("GenerateAndroidConfig", dropletIP),
                                   WriteCall(Sprintf(FilenameAndroidConfig, Name))>>
            /\ IF EntersTail(AutoConfigure)
               THEN Goto("autoConfigure")
               ELSE ReturnNil
       \/ /\ calls' = Append(calls, Call("GenerateAndroidConfig", dropletIP))
          /\ ReturnErr("GenerateAndroidConfig")
          /\ UNCHANGED disk
    /\ UNCHANGED <<deployment, applyFailed, fields, locals, portLoop, ipLoop>>

\* ------------------------------------------------------ the optional tail
\* mutant: the final status is set where the local apply starts
StatusAddingVPN_Done == "done"

StatusAddingVPN == "adding vpn to osx"
StatusWaitingForIP == "waiting for ip address change"
StatusDone == "done"

\* lines 174-176
StartAutoConfigure ==
    /\ pc = "autoConfigure"
    /\ Status' = StatusAddingVPN
    /\ Goto("osxAddVPN")
    /\ UNCHANGED <<deployment, applyFailed, VPNIPAddress, InitialPublicIP, FinalPublicIP,
                   VpnPassword, dropletIP, dropletID, locals, portLoop, ipLoop,
                   disk, calls>>

\* mutant: the error of vpn.OSXAddVPN is returned to the caller
OSXAddVPN_ErrorReturned ==
    /\ pc = "osxAddVPN"
    /\ calls' = Append(calls, Call("OSXAddVPN", Sprintf(FilenameAppleConfig, Name)))
    /\ \/ /\ applyFailed' = FALSE
          /\ Status' = StatusWaitingForIP
          /\ j' = 0
          /\ Goto("ipLoop")
       \/ /\ applyFailed' = TRUE
          /\ ReturnErr("OSXAddVPN")
          /\ UNCHANGED <<Status, j>>
    /\ UNCHANGED <<deployment, VPNIPAddress, InitialPublicIP, FinalPublicIP,
                   VpnPassword, dropletIP, dropletID, locals, portLoop, newIP,
                   changed, lookupErr, disk>>

\* lines 177-183: the error of vpn.OSXAddVPN is only logged
OSXAddVPN ==
    /\ pc = "osxAddVPN"
    /\ calls' = Append(calls, Call("OSXAddVPN", Sprintf(FilenameAppleConfig, Name)))
    /\ \E ok \in BOOLEAN : applyFailed' = ~ok
    /\ Status' = StatusWaitingForIP
    /\ j' = 0
    /\ Goto("ipLoop")
    /\ UNCHANGED <<deployment, VPNIPAddress, InitialPublicIP, FinalPublicIP,
                   VpnPassword, dropletIP, dropletID, locals, portLoop, newIP,
                   changed, lookupErr, disk>>

\* mutant: the loop bound off by one
IpLoopCond_OffByOne(n) == n <= 10

\* the loop condition of line 184
IpLoopCond(n) == n < 10

\* the test of line 187 on the result r of getPublicIp
IPChanged(r) == ~r.err /\ r.ip # EmptyString /\ r.ip # initialPublicIP

\* line 193, reached by break or when the loop condition fails
LeaveLoop ==
    /\ Status' = StatusDone
    /\ ReturnNil

\* one iteration of the loop, lines 185-191, up to the next call of
\* getPublicIp or the end of the loop: r is the result of the call of line
\* 186, r2 the result of the call of line 188 (made only if r passes)
ConvergeIteration(r, r2) ==
    IF IPChanged(r)
    THEN /\ newIP' = r.ip
         /\ FinalPublicIP' = r2.ip
         /\ lookupErr' = r2.err
         /\ changed' = TRUE
         /\ UNCHANGED j
         /\ calls' = calls \o <<Call("getPublicIp", "loop"),
                                Call("getPublicIp", "loop")>>
         /\ LeaveLoop
    ELSE /\ newIP' = r.ip
         /\ lookupErr' = r.err
         /\ j' = j + 1
         /\ UNCHANGED <<FinalPublicIP, changed>>
         /\ calls' = Append(calls, Call("getPublicIp", "loop"))
         /\ IF IpLoopCond(j + 1)
            THEN Goto("ipLoop") /\ UNCHANGED Status
            ELSE LeaveLoop

ConvergeAttempt ==
    /\ pc = "ipLoop"
    /\ IpLoopCond(j)
    /\ \E r \in PublicIpResults :
         IF IPChanged(r)
         THEN \E r2 \in PublicIpResults : ConvergeIteration(r, r2)
         ELSE ConvergeIteration(r, r)
    /\ UNCHANGED <<deployment, applyFailed, VPNIPAddress, InitialPublicIP,
                   VpnPassword, dropletIP, dropletID, locals, portLoop, disk>>

\* ------------------------------------------- repeated calls of New
\* the state before the first call of New: no Deployment yet, the inputs
\* region and autoConfigure of the calls are Region and AutoConfigure
InitNew ==
    /\ pc = "new"
    /\ result = "running"
    /\ failedStep = ""
    /\ Region \in Regions
    /\ AutoConfigure \in BOOLEAN
    /\ Name = <<>>
    /\ created = <<>>
    /\ Status = ""
    /\ VPNIPAddress = ""
    /\ InitialPublicIP = EmptyString
    /\ FinalPublicIP = EmptyString
    /\ VpnPassword = ""
    /\ dropletIP = ""
    /\ dropletID = 0
    /\ initialPublicIP = EmptyString
    /\ privateKeyString = ""
    /\ caCertString = ""
    /\ serverCertString = ""
    /\ attempt = 0
    /\ j = 0
    /\ newIP = EmptyString
    /\ changed = FALSE
    /\ dirExists \in BOOLEAN
    /\ files = <<>>
    /\ calls = <<>>
    /\ dials = 0
    /\ sleeps = 0
    /\ closes = 0
    /\ writeErrors = 0
    /\ applyFailed = FALSE
    /\ lookupErr = FALSE

\* one call New(token, Region, AutoConfigure), lines 66-88: the name is
\* built first (line 68), then sshclient.New and
\* services.GenerateCloudConfig may fail
NewCall ==
    /\ pc = "new"
    /\ Len(created) < MaxNewCalls
    /\ \E seed \in ClockReadings : \E r \in RandAfterSeed(seed) :
         IF randomStringPanics(r, 3)
         THEN /\ created' = Append(created, [seed |-> seed, rand |-> r,
                                             outcome |-> "panic", name |-> <<>>])
              /\ pc' = "panicked"
              /\ UNCHANGED <<Name, Status>>
         ELSE \E outcome \in {"ok", "sshclient.New", "GenerateCloudConfig"} :
              /\ created' = Append(created,
                    [seed |-> seed, rand |-> r, outcome |-> outcome,
                     name |-> NewName(randomString(r, 3), Region)])
              /\ pc' = "new"
              /\ IF outcome = "ok"
                 THEN /\ Name' = NewName(randomString(r, 3), Region)
                      /\ Status' = StatusNew
                 ELSE UNCHANGED <<Name, Status>>
    /\ UNCHANGED <<result, failedStep, Region, AutoConfigure, VPNIPAddress,
                   InitialPublicIP, FinalPublicIP, VpnPassword, dropletIP,
                   dropletID, locals, portLoop, ipLoop, disk, calls,
                   applyFailed>>

NextNew == NewCall

SpecNew == InitNew /\ [][NextNew]_vars

Next ==
    \/ GetInitialIP
    \/ CreateDroplet
    \/ WaitForDropletIP
    \/ CreateFirewall
    \/ waitForPortDial
    \/ waitForPortTimeout
    \/ SSHRunWait
    \/ GetPassword
    \/ GetPrivateKey
    \/ GetCACert
    \/ GetServerCert
    \/ GenAppleConfig
    \/ GenAndroidConfig
    \/ StartAutoConfigure
    \/ OSXAddVPN
    \/ ConvergeAttempt

Spec == Init /\ [][Next]_vars

\* every call of a collaborator returns, and Run then takes its next step
LiveSpec == Spec /\ WF_vars(Next)

\* ================================================================ claims
LoopProbes ==
    Cardinality({i \in 1..Len(calls) : calls[i] = <<"getPublicIp", "loop">>})
BaselineProbes ==
    Cardinality({i \in 1..Len(calls) : calls[i] = <<"getPublicIp", "baseline">>})

Rank(s) ==
    CASE s = "pending auth" -> 1
      [] s = "waiting for ssh" -> 2
      [] s = "adding vpn to osx" -> 3
      [] s = "waiting for ip address change" -> 4
      [] s = "done" -> 5
      [] OTHER -> 0

\* C1: Status starts at 'pending auth', only takes the five values of the
\* fixed order, and no step of Run moves it from a later value of the order
\* back to an earlier one.
C1_StatusNeverRegresses ==
    [][Rank(Status) > 0 /\ Rank(Status') >= Rank(Status)]_vars

C1_Witness ==
    /\ AutoConfigure
    /\ pc = "returned"
    /\ result = "nil"
    /\ Status = "done"

\* C2: whenever Run has returned nil, Status is 'done' (for both values of
\* AutoConfigure).
C2_SuccessLeavesDone == result = "nil" => Status = "done"

\* C3: with AutoConfigure = false Run never calls vpn.OSXAddVPN, never
\* probes the public IP in the convergence loop (the baseline lookup is the
\* only lookup), leaves FinalPublicIP empty and never shows one of the two
\* statuses of the optional tail.
C3_NoTailWithoutAutoConfigure ==
    ~AutoConfigure =>
        /\ Count("OSXAddVPN") = 0
        /\ LoopProbes = 0
        /\ Count("getPublicIp") = BaselineProbes
        /\ BaselineProbes <= 1
        /\ FinalPublicIP = EmptyString
        /\ Status \notin {"adding vpn to osx", "waiting for ip address change"}

C3_Witness ==
    /\ ~AutoConfigure
    /\ pc = "returned"
    /\ result = "nil"
    /\ BaselineProbes = 1

\* C4: waitForPort never makes a 16th connect attempt; when 15 attempts
\* have failed the only thing it does is return the timeout error (fatal in
\* Run), and the timeout error is returned only after exactly 15 failed
\* attempts, each followed by a sleep.
C4_TimeoutAfterExactly15 ==
    [][/\ dials' <= 15
       /\ (pc = "waitForSSH" /\ dials = 15 /\ closes = 0
             => pc' = "exited" /\ failedStep' = "waitForSSH" /\ dials' = 15)
       /\ (failedStep' = "waitForSSH"
             => dials' = 15 /\ sleeps' = 15 /\ closes' = 0 /\ result' = "fatal")
      ]_vars

C4_Witness ==
    /\ failedStep = "waitForSSH"
    /\ result = "fatal"
    /\ dials = 15

\* C5: when the connect of attempt k succeeds (k-1 failed attempts, each
\* with its sleep, went before), waitForPort closes the connection and
\* returns: k is at most 15, exactly k connects were made, and no connect,
\* sleep or close happens afterwards.
C5_ReturnsAtFirstSuccess ==
    [][/\ (closes = 0 /\ closes' = 1
             => /\ dials' = dials + 1
                /\ dials' = sleeps + 1
                /\ dials' <= 15
                /\ sleeps' = sleeps
                /\ pc' = "sshRun")
       /\ (closes >= 1
             => dials' = dials /\ sleeps' = sleeps /\ closes' = closes)
      ]_vars

C5_Witness ==
    /\ pc = "returned"
    /\ closes = 1
    /\ dials = 15
    /\ sleeps = 14

\* C6: the convergence loop calls the public-IP probe once per attempt:
\* while no change was seen the loop has made j calls, and when attempt
\* k = j + 1 saw the change the loop has made exactly k calls.
C6_OneProbePerAttempt ==
    LoopProbes = IF changed THEN j + 1 ELSE j

\* C7: FinalPublicIP is empty, or it is a non-empty address different from
\* InitialPublicIP and equal to the probe value that passed the test.
C7_FinalIsTheChangedIP ==
    \/ FinalPublicIP = EmptyString
    \/ /\ FinalPublicIP # InitialPublicIP
       /\ FinalPublicIP = newIP

\* C8: with AutoConfigure = true, when the loop has ended without an
\* attempt that saw a changed IP, exactly 10 attempts (10 probe calls) were
\* made, FinalPublicIP is empty, Status is 'done' and Run returns nil.
C8_ExhaustedLoopIsSuccess ==
    (Count("OSXAddVPN") > 0 /\ ~changed /\ pc # "ipLoop") =>
        /\ AutoConfigure
        /\ j = 10
        /\ LoopProbes = 10
        /\ FinalPublicIP = EmptyString
        /\ Status = "done"
        /\ pc = "returned"
        /\ result = "nil"

C8_Witness ==
    /\ AutoConfigure
    /\ ~changed
    /\ j = 10
    /\ pc = "returned"
    /\ result = "nil"
    /\ Status = "done"

ArtifactOrder ==
    <<"/etc/ipsec.d/client.cert.p12.password", "/etc/ipsec.d/client.cert.p12",
      "/etc/ipsec.d/cacerts/ca.cert.pem", "/etc/ipsec.d/certs/server.cert.pem">>

ArtifactFile(i) ==
    <<<<"%s.client.cert.p12", "%s.ca.cert.pem", "%s.server.cert.pem">>[i - 1],
      Name>>

FetchLog == SelectSeq(calls, LAMBDA c : c[1] = "GetFileFromContainer")

\* C9: when the fetch of artifact i (in the order password, private key, CA
\* certificate, server certificate) fails, Run returns that error, the
\* fetches made are exactly artifacts 1..i in that order, no client config
\* was rendered, and the Config Directory holds exactly the files of the
\* persisted artifacts fetched before i.
C9_FailedFetchAbortsRest ==
    \A i \in 1..4 :
        (result = "error" /\ failedStep = ArtifactOrder[i]) =>
            /\ pc = "returned"
            /\ Len(FetchLog) = i
            /\ \A m \in 1..i : FetchLog[m][2][2] = ArtifactOrder[m]
            /\ Count("GenerateAppleConfig") = 0
            /\ Count("GenerateAndroidConfig") = 0
            /\ Count("WriteFile") = IF i = 1 THEN 0 ELSE i - 2
            /\ DOMAIN files = {ArtifactFile(m) : m \in 2..(i - 1)}

\* C10: a write failure is propagated: once saveConfig has returned an
\* error, Run has returned an error, no second write was tried, and Status
\* is not 'done'.
C10_WriteFailurePropagates ==
    writeErrors > 0 =>
        /\ result = "error"
        /\ pc = "returned"
        /\ writeErrors = 1
        /\ Status # "done"

\* C11: once vpn.OSXAddVPN has returned an error, the run is not aborted:
\* Status is 'waiting for ip address change' while the convergence loop
\* runs (the loop makes its probes), and the run ends with Status 'done'
\* and Run returning nil, never with an error or a fatal exit.
C11_ApplyFailureTolerated ==
    applyFailed =>
        /\ Count("OSXAddVPN") = 1
        /\ \/ /\ pc = "ipLoop"
              /\ result = "running"
              /\ Status = "waiting for ip address change"
              /\ LoopProbes = j
           \/ /\ pc = "returned"
              /\ result = "nil"
              /\ Status = "done"
              /\ LoopProbes >= 1

C11_Witness ==
    /\ applyFailed
    /\ pc = "returned"
    /\ result = "nil"
    /\ Status = "done"
    /\ LoopProbes = 10

\* the lifecycle steps in the order of Run; the two local writes and the
\* renders follow the fetches
StepOrder ==
    <<"getPublicIp", "CreateDroplet", "WaitForDropletIP", "CreateFirewall",
      "Dial", "Run", "GetFileFromContainer", "WriteFile",
      "GenerateAppleConfig", "GenerateAndroidConfig", "OSXAddVPN">>

StepIndex(op) == CHOOSE n \in 1..Len(StepOrder) : StepOrder[n] = op

FatalCall(step) == IF step = "waitForSSH" THEN "Dial" ELSE step

\* C12: when one of the fatal steps (create machine, wait for address,
\* create firewall, SSH port wait, remote wait command) has failed, the run
\* is over: the process has exited, the failed step is the last call made
\* (no later lifecycle step was invoked), it was made once (15 connect
\* attempts for the port wait), Status is not 'done', and nothing happens
\* afterwards.
C12_FatalStepAbandonsRun ==
    [][(failedStep' \in {"CreateDroplet", "WaitForDropletIP", "CreateFirewall",
                         "waitForSSH", "Run"})
         => /\ result' = "fatal"
            /\ pc' = "exited"
            /\ failedStep \in {"", failedStep'}
            /\ failedStep = failedStep' => UNCHANGED vars
            /\ Status' # "done"
            /\ calls'[Len(calls')][1] = FatalCall(failedStep')
            /\ \A i \in 1..Len(calls') :
                  StepIndex(calls'[i][1]) <= StepIndex(FatalCall(failedStep'))
            /\ Cardinality({i \in 1..Len(calls') :
                              calls'[i][1] = FatalCall(failedStep')})
                 = IF failedStep' = "waitForSSH" THEN 15 ELSE 1
      ]_vars

C12_Witness ==
    /\ result = "fatal"
    /\ failedStep = "CreateFirewall"
    /\ Count("CreateFirewall") = 1
    /\ Count("Dial") = 0

\* C13: any two calls of New (with the same token, region and
\* autoConfigure) that both returned a Deployment gave them different Names.
C13_NamesDiffer ==
    \A a \in 1..Len(created) : \A b \in 1..Len(created) :
        (a # b /\ created[a].outcome = "ok" /\ created[b].outcome = "ok")
            => created[a].name # created[b].name

FiveFiles ==
    {<<t, Name>> : t \in {"%s.client.cert.p12", "%s.ca.cert.pem",
                          "%s.server.cert.pem", "%s.apple.mobileconfig",
                          "%s.android.sswan"}}

\* C14: when Run has returned nil the Config Directory holds exactly five
\* files stemmed by Name (private key, CA certificate, server certificate
\* and the two client configs), each artifact file with the content its
\* fetch returned, and the password is in VpnPassword only.
C14_FiveFilesWritten ==
    result = "nil" =>
        /\ DOMAIN files = FiveFiles
        /\ files[<<"%s.client.cert.p12", Name>>] = ContainerFiles[RemotePrivateKey]
        /\ files[<<"%s.ca.cert.pem", Name>>] = ContainerFiles[RemoteCACert]
        /\ files[<<"%s.server.cert.pem", Name>>] = ContainerFiles[RemoteServerCert]
        /\ VpnPassword = ContainerFiles[RemotePassword]
        /\ \A f \in DOMAIN files : files[f] # ContainerFiles[RemotePassword]
        /\ Count("WriteFile") = 5

OpsOfRun == [i \in 1..Len(calls) |-> calls[i][1]]

\* the calls made so far follow the order of Run
CallsInOrder ==
    /\ \A i \in 1..Len(calls) : \A k \in 1..Len(calls) :
          (i < k /\ calls[i][1] \notin {"GetFileFromContainer", "WriteFile",
                                        "GenerateAppleConfig", "GenerateAndroidConfig"}
                 /\ calls[k] # <<"getPublicIp", "loop">>)
              => \/ StepIndex(calls[i][1]) < StepIndex(calls[k][1])
                 \/ calls[i][1] = "Dial" /\ calls[k][1] = "Dial"
    /\ \A k \in 1..Len(calls) :
          calls[k] = <<"getPublicIp", "loop">>
              => \E i \in 1..(k - 1) : calls[i][1] = "OSXAddVPN"
    /\ \A k \in 1..Len(calls) :
          calls[k] = <<"getPublicIp", "baseline">> => k = 1
    /\ Count("Dial") > 0 => Count("CreateFirewall") = 1
    /\ Count("CreateFirewall") > 0 => Count("WaitForDropletIP") = 1
    /\ Count("WaitForDropletIP") > 0 => Count("CreateDroplet") = 1
    /\ Count("Run") > 0 => closes = 1
    /\ Count("GetFileFromContainer") > 0 => Count("Run") = 1
    /\ LET tail == SelectSeq(OpsOfRun, LAMBDA o : o \in
                     {"GetFileFromContainer", "WriteFile", "GenerateAppleConfig",
                      "GenerateAndroidConfig", "OSXAddVPN"})
           full == <<"GetFileFromContainer",
                     "GetFileFromContainer", "WriteFile",
                     "GetFileFromContainer", "WriteFile",
                     "GetFileFromContainer", "WriteFile",
                     "GenerateAppleConfig", "WriteFile",
                     "GenerateAndroidConfig", "WriteFile", "OSXAddVPN">>
       IN  /\ Len(tail) <= Len(full)
           /\ tail = SubSeq(full, 1, Len(tail))

\* C15: the calls of Run come one after the other in the fixed order of
\* StepOrder (an artifact's write follows its fetch, a render's write
\* follows the render), a step is called only when every step before it was
\* called, only the port probe and the public-IP probe repeat, and the
\* local apply is called only when the primary client config is in the
\* Config Directory.
C15_StrictSequence ==
    /\ CallsInOrder
    /\ Count("OSXAddVPN") > 0 =>
          <<"%s.apple.mobileconfig", Name>> \in DOMAIN files

\* the address a call was made with
AddressOf(c) ==
    IF c[1] \in {"Dial", "GetFileFromContainer"} THEN c[2][1] ELSE c[2]

\* C16: VPNIPAddress is empty until WaitForDropletIP has succeeded; from
\* then on it is the address that call returned, and every port probe,
\* remote command, artifact fetch and client-config render of the run was
\* made with exactly the current VPNIPAddress (so it never changed), as
\* were the rendered documents on disk.
C16_AddressRecordedOnce ==
    /\ (Count("WaitForDropletIP") = 0 \/ failedStep = "WaitForDropletIP")
          => VPNIPAddress = ""
    /\ (Count("WaitForDropletIP") = 1 /\ failedStep # "WaitForDropletIP")
          => VPNIPAddress \in {"10.0.0.1"}
    /\ \A i \in 1..Len(calls) :
          calls[i][1] \in {"Dial", "Run", "GetFileFromContainer",
                           "GenerateAppleConfig", "GenerateAndroidConfig"}
              => AddressOf(calls[i]) = VPNIPAddress /\ VPNIPAddress # ""
    /\ \A f \in DOMAIN files :
          f[1] \in {"%s.apple.mobileconfig", "%s.android.sswan"}
              => files[f][2] = VPNIPAddress

C16_Witness ==
    /\ result = "nil"
    /\ VPNIPAddress = "10.0.0.1"
    /\ Count("GenerateAndroidConfig") = 1
    /\ <<"%s.apple.mobileconfig", Name>> \in DOMAIN files

\* C18: when Run has returned an error, the error is that of an artifact
\* fetch or a client-config render, vpn.OSXAddVPN was not called, the
\* convergence loop made no probe, FinalPublicIP is empty and Status is
\* 'waiting for ssh' (for both values of AutoConfigure).
C18_ErrorReturnBeforeTail ==
    result = "error" =>
        /\ failedStep \in {"/etc/ipsec.d/client.cert.p12.password",
                           "/etc/ipsec.d/client.cert.p12",
                           "/etc/ipsec.d/cacerts/ca.cert.pem",
                           "/etc/ipsec.d/certs/server.cert.pem",
                           "GenerateAppleConfig", "GenerateAndroidConfig"}
        /\ pc = "returned"
        /\ Count("OSXAddVPN") = 0
        /\ LoopProbes = 0
        /\ FinalPublicIP = EmptyString
        /\ Status = "waiting for ssh"

C18_Witness ==
    /\ result = "error"
    /\ AutoConfigure
    /\ failedStep = "GenerateAndroidConfig"

\* C17: a public-IP lookup that fails never ends the run: a failed
\* baseline lookup leaves InitialPublicIP empty and Run goes on to create
\* the droplet; a failed lookup in the convergence loop is followed by the
\* next attempt, or, when it was the last attempt or the lookup after a
\* change, by Status 'done' and the return of nil.
C17_LookupFailuresTolerated ==
    [][(lookupErr' /\ Len(calls') > Len(calls)
                   /\ calls'[Len(calls')][1] = "getPublicIp")
         => /\ result' \in {"running", "nil"}
            /\ failedStep' = ""
            /\ pc = "getInitialIP"
                 => /\ InitialPublicIP' = EmptyString
                    /\ pc' = "createDroplet"
                    /\ result' = "running"
            /\ pc = "ipLoop"
                 => \/ /\ pc' = "ipLoop"
                       /\ result' = "running"
                       /\ j' = j + 1
                       /\ j' < 10
                    \/ /\ pc' = "returned"
                       /\ result' = "nil"
                       /\ Status' = "done"
                       /\ j' = 10 \/ changed'
      ]_vars

C17_Witness ==
    /\ lookupErr
    /\ Count("getPublicIp") = 1
    /\ Count("CreateDroplet") = 1
    /\ InitialPublicIP = EmptyString
    /\ result = "running"

\* C19: when every collaborator call returns, Run ends (it returns nil or
\* an error, or the process exits in log.Fatal); on the way it makes at most
\* 15 connect attempts and at most 10 convergence attempts.
C19_RunTerminates ==
    /\ [](dials <= 15 /\ j + (IF changed THEN 1 ELSE 0) <= 10)
    /\ <>(result \in {"nil", "error", "fatal"})

C19_Witness ==
    /\ result = "nil"
    /\ dials = 15
    /\ j = 10

====
